---- MODULE Spec2Model ----
(***************************************************************************)
(* The assignment_checker program: a hash-chain commitment per assignment  *)
(* (AssignmentCheckerState) consumed one link at a time by students'       *)
(* checks, and a per-student record of the outcome (CheckResult).          *)
(*                                                                         *)
(* Every instruction is one atomic step: the runtime serialises the        *)
(* transactions that write an account, and an instruction that returns an  *)
(* error (from the handler or from an account constraint) leaves every     *)
(* account as it was.                                                      *)
(***************************************************************************)
EXTENDS Integers, FiniteSets, Sequences, TLC

\* ------------------------------------------------------------------ bounds
NumStudents == 3
MaxChainLength == 3
MaxValue == 3

\* hash_chain_length and expected_hash_chain_length are u16
U16 == 65536

\* The model follows one AssignmentCheckerState account, the PDA of this
\* assignment, and every CheckResult account a check can be sent with it: the
\* results of this assignment and those of another one.  Checker accounts of
\* different assignments share no state and no instruction takes two of them.
CheckerAssignment == 1
AssignmentIds == {CheckerAssignment, CheckerAssignment + 1}

Students == 1..NumStudents
\* 32-byte values a client can send (hash_chain_tail_parent, the tail given to init)
Values == 0..MaxValue
\* u16 lengths a client can send
Lengths == 0..MaxChainLength
\* opaque payloads of init, never read by the program
Amounts == {2}
Salts == {1}

\* ------------------------------------------------------------------ hashing
\* blake3::hash on the bounded value domain: injective and without cycles.
Hash(x) == x + 1

RECURSIVE HashN(_, _)
\* hash applied n times: hash(...(hash(x))...)
HashN(x, n) == IF n = 0 THEN x ELSE Hash(HashN(x, n - 1))

\* the PDA bump of an account: a fixed function of its seeds
Bump(seed) == 255 - seed

\* a bug: the subtraction is lost
Dec16_Keep(n) == n

\* u16 subtraction of one
Dec16(n) == (n + U16 - 1) % U16

\* ------------------------------------------------------------------ state
VARIABLES
    assignment_checker, \* the AssignmentCheckerState account
    check_result,       \* [Students \X AssignmentIds -> CheckResult account]
    outcome,            \* the last instruction and what it returned
    created,            \* history: the length and tail the checker was initialised with
    passes,             \* history: number of passing checks, by expected length
    first_time,         \* history: checks of each result account that ended with passed_first_time
    frontiers,          \* history: every value ground_truth_hash_chain_tail has held
    client              \* a student's client that retries a check with the length it reads

vars == <<assignment_checker, check_result, outcome, created, passes, first_time, frontiers, client>>

\* An allocated account that was never initialised: all bytes zero.
ZeroChecker ==
    [initialized |-> FALSE, assignment_id |-> 0, hash_chain_length |-> 0,
     to_mint_on_successful_check |-> 0, salt |-> 0,
     ground_truth_hash_chain_tail |-> 0, bump_seed |-> 0]

ZeroCheckResult ==
    [initialized |-> FALSE, assignment_id |-> 0, check_passed |-> FALSE,
     passed_first_time |-> FALSE, bump_seed |-> 0]

Outcomes ==
    {"None", "Ok", "ZeroHashChainLength", "ExpectedHashLengthDiffers",
     "ConstraintZero", "ConstraintSeeds", "ConstraintRaw", "AccountNotInitialized"}

\* instruction `instruction` ended with `code`: "Ok" or the error's name
Returned(instruction, code) == [instruction |-> instruction, code |-> code]

\* the client before its first attempt
IdleClient == [pc |-> "idle", view |-> 0, preimage |-> 0, rejections |-> 0, result |-> "None"]

\* the accounts of `students` are allocated, nothing is initialised
InitOf(students) ==
    /\ assignment_checker = ZeroChecker
    /\ check_result = [k \in students \X AssignmentIds |-> ZeroCheckResult]
    /\ outcome = Returned("none", "None")
    /\ created = [length |-> 0, tail |-> 0]
    /\ passes = [n \in 1..MaxChainLength |-> 0]
    /\ first_time = [k \in students \X AssignmentIds |-> 0]
    /\ frontiers = {}
    /\ client = IdleClient

Init == InitOf(Students)

\* a bug: the zero constraint is missing
ZeroConstraint_Missing(account) == TRUE

\* ------------------------------------------------------------------ account constraints
\* #[account(zero)]: the account's discriminator is still zero
ZeroConstraint(account) == ~account.initialized

\* seeds = [.., ASSIGNMENT_ID_SEED, assignment_id]: the account is the PDA of assignment_id
SeedsConstraint(assignment_id) == assignment_id = CheckerAssignment

\* a bug: a chain of one link is let through
InitLengthConstraint_One(hash_chain_length) == hash_chain_length >= 1

\* constraint = hash_chain_length >= 2
InitLengthConstraint(hash_chain_length) == hash_chain_length >= 2

\* a bug: the pairing constraint is missing
AssignmentIdConstraint_Missing(checker_account, check_result_account) == TRUE

\* constraint = assignment_checker.assignment_id == check_result.assignment_id
AssignmentIdConstraint(checker_account, check_result_account) ==
    checker_account.assignment_id = check_result_account.assignment_id

\* ------------------------------------------------------------------ init
\* the instruction on the current accounts: what it returns and the checker account after it
InitInstruction(assignment_id, hash_chain_length, to_mint, salt, tail) ==
    IF ~ZeroConstraint(assignment_checker) THEN
        [code |-> "ConstraintZero", assignment_checker |-> assignment_checker]
    ELSE IF ~SeedsConstraint(assignment_id) THEN
        [code |-> "ConstraintSeeds", assignment_checker |-> assignment_checker]
    ELSE IF ~InitLengthConstraint(hash_chain_length) THEN
        [code |-> "ConstraintRaw", assignment_checker |-> assignment_checker]
    ELSE
        [code |-> "Ok",
         assignment_checker |->
               [initialized |-> TRUE,
                assignment_id |-> assignment_id,
                hash_chain_length |-> hash_chain_length,
                to_mint_on_successful_check |-> to_mint,
                salt |-> salt,
                ground_truth_hash_chain_tail |-> tail,
                bump_seed |-> Bump(assignment_id)]]

init(assignment_id, hash_chain_length, to_mint, salt, tail) ==
    LET after == InitInstruction(assignment_id, hash_chain_length, to_mint, salt, tail) IN
    /\ outcome' = Returned("init", after.code)
    /\ assignment_checker' = after.assignment_checker
    /\ created' = IF after.code = "Ok"
                  THEN [length |-> hash_chain_length, tail |-> tail]
                  ELSE created
    /\ frontiers' = IF after.code = "Ok" THEN {tail} ELSE frontiers
    /\ UNCHANGED <<check_result, passes, first_time>>

\* ------------------------------------------------------------------ init_check_result
init_check_result(s, a) ==
    LET account == check_result[<<s, a>>] IN
    IF ~ZeroConstraint(account) THEN
        /\ outcome' = Returned("init_check_result", "ConstraintZero")
        /\ UNCHANGED <<assignment_checker, check_result, created, passes, first_time, frontiers>>
    ELSE
        /\ check_result' = [check_result EXCEPT ![<<s, a>>] =
               [account EXCEPT !.initialized = TRUE,
                               !.assignment_id = a,
                               !.bump_seed = Bump(s + a)]]
        /\ outcome' = Returned("init_check_result", "Ok")
        /\ UNCHANGED <<assignment_checker, created, passes, first_time, frontiers>>

\* ------------------------------------------------------------------ check
\* a bug: the used-up chain is not detected
ChainFullyUsed_Never(checker_account) == FALSE

\* checker_account.hash_chain_length == 0
ChainFullyUsed(checker_account) == checker_account.hash_chain_length = 0

\* a bug: the expected length is never compared
LengthDiffers_Never(checker_account, expected_hash_chain_length) == FALSE

\* a bug: != written as <
LengthDiffers_OnlyShorter(checker_account, expected_hash_chain_length) ==
    checker_account.hash_chain_length < expected_hash_chain_length

\* a bug: every expected length is taken to differ
LengthDiffers_Always(checker_account, expected_hash_chain_length) == TRUE

\* checker_account.hash_chain_length != expected_hash_chain_length
LengthDiffers(checker_account, expected_hash_chain_length) ==
    checker_account.hash_chain_length # expected_hash_chain_length

\* a bug: the parent is compared with the tail without being hashed
TailMatches_NoHash(checker_account, hash_chain_tail_parent) ==
    hash_chain_tail_parent = checker_account.ground_truth_hash_chain_tail

\* a bug: every parent is taken to match
TailMatches_Always(checker_account, hash_chain_tail_parent) == TRUE

\* blake3::hash(&hash_chain_tail_parent) == blake3::Hash(ground_truth_hash_chain_tail)
TailMatches(checker_account, hash_chain_tail_parent) ==
    Hash(hash_chain_tail_parent) = checker_account.ground_truth_hash_chain_tail

\* a bug: check_passed is set and passed_first_time is not
PassedResult_NoFirstTime(check_result_account) ==
    [check_result_account EXCEPT !.check_passed = TRUE]

\* a bug: only passed_first_time is set
PassedResult_NoPassed(check_result_account) ==
    [check_result_account EXCEPT !.passed_first_time = TRUE]

\* check has passed the first time
PassedResult(check_result_account) ==
    [check_result_account EXCEPT !.check_passed = TRUE, !.passed_first_time = TRUE]

\* a bug: the length is decremented and the tail is kept
RemoveTail_KeepTail(checker_account, hash_chain_tail_parent) ==
    [checker_account EXCEPT
        !.hash_chain_length = Dec16(checker_account.hash_chain_length)]

\* a bug: the tail is replaced but the length stays
RemoveTail_KeepLength(checker_account, hash_chain_tail_parent) ==
    [checker_account EXCEPT !.ground_truth_hash_chain_tail = hash_chain_tail_parent]

\* remove tail from the chain
RemoveTail(checker_account, hash_chain_tail_parent) ==
    [checker_account EXCEPT
        !.hash_chain_length = Dec16(checker_account.hash_chain_length),
        !.ground_truth_hash_chain_tail = hash_chain_tail_parent]

\* a bug: passed_first_time is left as it is
Resubmitted_KeepFlag(check_result_account) == check_result_account

\* a bug: the branch clears check_passed as well
Resubmitted_ResetsPassed(check_result_account) ==
    [check_result_account EXCEPT !.check_passed = FALSE, !.passed_first_time = FALSE]

\* the branch for a result that has already passed
Resubmitted(check_result_account) ==
    [check_result_account EXCEPT !.passed_first_time = FALSE]

\* a bug: the expected length is compared before the chain is found used up
CheckHandler_LengthFirst(check_result_account, checker_account, expected_hash_chain_length, hash_chain_tail_parent) ==
    IF check_result_account.check_passed THEN
        [outcome |-> "Ok",
         check_result |-> Resubmitted(check_result_account),
         assignment_checker |-> checker_account]
    ELSE IF LengthDiffers(checker_account, expected_hash_chain_length) THEN
        [outcome |-> "ExpectedHashLengthDiffers",
         check_result |-> check_result_account,
         assignment_checker |-> checker_account]
    ELSE IF ChainFullyUsed(checker_account) THEN
        [outcome |-> "ZeroHashChainLength",
         check_result |-> check_result_account,
         assignment_checker |-> checker_account]
    ELSE IF TailMatches(checker_account, hash_chain_tail_parent) THEN
        [outcome |-> "Ok",
         check_result |-> PassedResult(check_result_account),
         assignment_checker |-> RemoveTail(checker_account, hash_chain_tail_parent)]
    ELSE
        [outcome |-> "Ok",
         check_result |-> check_result_account,
         assignment_checker |-> checker_account]

\* The handler's body: what it returns and the two accounts as it leaves them
\* (as they were, when it returns an error).
CheckHandler(check_result_account, checker_account, expected_hash_chain_length, hash_chain_tail_parent) ==
    IF check_result_account.check_passed THEN
        [outcome |-> "Ok",
         check_result |-> Resubmitted(check_result_account),
         assignment_checker |-> checker_account]
    ELSE IF ChainFullyUsed(checker_account) THEN
        [outcome |-> "ZeroHashChainLength",
         check_result |-> check_result_account,
         assignment_checker |-> checker_account]
    ELSE IF LengthDiffers(checker_account, expected_hash_chain_length) THEN
        [outcome |-> "ExpectedHashLengthDiffers",
         check_result |-> check_result_account,
         assignment_checker |-> checker_account]
    ELSE IF TailMatches(checker_account, hash_chain_tail_parent) THEN
        [outcome |-> "Ok",
         check_result |-> PassedResult(check_result_account),
         assignment_checker |-> RemoveTail(checker_account, hash_chain_tail_parent)]
    ELSE
        [outcome |-> "Ok",
         check_result |-> check_result_account,
         assignment_checker |-> checker_account]

\* The check instruction of student s, sent with the checker account and the
\* student's result account of assignment r: the code it returns and the accounts
\* after it.  The Check accounts are validated before the handler runs.
CheckInstruction(s, r, expected_hash_chain_length, hash_chain_tail_parent) ==
    LET check_result_account == check_result[<<s, r>>]
        done == CheckHandler(check_result_account, assignment_checker,
                             expected_hash_chain_length, hash_chain_tail_parent)
    IN
    IF ~assignment_checker.initialized \/ ~check_result_account.initialized THEN
        [code |-> "AccountNotInitialized",
         assignment_checker |-> assignment_checker,
         check_result |-> check_result]
    ELSE IF ~AssignmentIdConstraint(assignment_checker, check_result_account) THEN
        [code |-> "ConstraintRaw",
         assignment_checker |-> assignment_checker,
         check_result |-> check_result]
    ELSE
        [code |-> done.outcome,
         assignment_checker |-> done.assignment_checker,
         check_result |-> [check_result EXCEPT ![<<s, r>>] = done.check_result]]

check(s, r, expected_hash_chain_length, hash_chain_tail_parent) ==
    LET after == CheckInstruction(s, r, expected_hash_chain_length, hash_chain_tail_parent)
        ran == after.code \notin {"AccountNotInitialized", "ConstraintRaw"}
        passed == after.check_result[<<s, r>>].check_passed
                  /\ ~check_result[<<s, r>>].check_passed
    IN
    /\ outcome' = Returned("check", after.code)
    /\ assignment_checker' = after.assignment_checker
    /\ check_result' = after.check_result
    /\ passes' = IF passed /\ expected_hash_chain_length \in DOMAIN passes
                 THEN [passes EXCEPT ![expected_hash_chain_length] = @ + 1]
                 ELSE passes
    /\ first_time' = IF ran /\ after.check_result[<<s, r>>].passed_first_time
                     THEN [first_time EXCEPT ![<<s, r>>] = @ + 1]
                     ELSE first_time
    /\ frontiers' = IF after.assignment_checker.initialized
                    THEN frontiers \cup {after.assignment_checker.ground_truth_hash_chain_tail}
                    ELSE frontiers
    /\ UNCHANGED created

\* ------------------------------------------------------------------ specification
\* The instructions sent with the checker account and the result accounts of its
\* own assignment.
Next ==
    \/ \E a \in AssignmentIds, n \in Lengths, m \in Amounts, t \in Salts, h \in Values :
           init(a, n, m, t, h) /\ UNCHANGED client
    \/ \E s \in Students : init_check_result(s, CheckerAssignment) /\ UNCHANGED client
    \/ \E s \in Students, n \in Lengths, p \in Values :
           check(s, CheckerAssignment, n, p) /\ UNCHANGED client

Spec == Init /\ [][Next]_vars

\* The checker account of another assignment is not followed.  At a check sent
\* with it, it is an initialised account of that assignment whose chain is used
\* up or still has links; with the inputs of the check ranging over all lengths
\* and values, this reaches every branch of the handler.
OtherCheckers(a) ==
    [initialized : {TRUE}, assignment_id : {a}, hash_chain_length : {0, MaxChainLength},
     to_mint_on_successful_check : Amounts, salt : Salts,
     ground_truth_hash_chain_tail : {Hash(v) : v \in {MaxValue - 1}},
     bump_seed : {Bump(a)}]

\* check sent with the result account of student s for assignment a and the
\* checker account of that assignment
check_with(s, a, checker_account, expected_hash_chain_length, hash_chain_tail_parent) ==
    LET account == check_result[<<s, a>>]
        done == CheckHandler(account, checker_account, expected_hash_chain_length, hash_chain_tail_parent)
    IN
    IF ~account.initialized THEN
        /\ outcome' = Returned("check", "AccountNotInitialized")
        /\ UNCHANGED <<assignment_checker, check_result, created, passes, first_time, frontiers>>
    ELSE
        /\ outcome' = Returned("check", done.outcome)
        /\ check_result' = [check_result EXCEPT ![<<s, a>>] = done.check_result]
        /\ first_time' = IF done.check_result.passed_first_time
                         THEN [first_time EXCEPT ![<<s, a>>] = @ + 1]
                         ELSE first_time
        /\ UNCHANGED <<assignment_checker, created, passes, frontiers>>

\* the students that have a result account of the other assignment as well
PairingStudents == {NumStudents}

\* the result accounts that exist: every student's for the checker's assignment,
\* and for the other assignment those of PairingStudents
PairingResults ==
    {k \in Students \X AssignmentIds : k[2] = CheckerAssignment \/ k[1] \in PairingStudents}

\* The instructions with result accounts of both assignments: a check can be sent
\* with the checker of one assignment and the result of another.  The pairing
\* constraint reads no tail, so the checker is created over one secret, 0, with
\* the tail its length calls for.
NextPairing ==
    \/ \E a \in AssignmentIds, n \in Lengths, m \in Amounts, t \in Salts :
           init(a, n, m, t, HashN(0, n)) /\ UNCHANGED client
    \/ \E k \in PairingResults : init_check_result(k[1], k[2]) /\ UNCHANGED client
    \/ \E k \in PairingResults, n \in Lengths, p \in Values :
           check(k[1], k[2], n, p) /\ UNCHANGED client
    \/ \E k \in PairingResults \ (Students \X {CheckerAssignment}), n \in Lengths, p \in Values :
           \E checker_account \in OtherCheckers(k[2]) :
               check_with(k[1], k[2], checker_account, n, p) /\ UNCHANGED client

SpecPairing == Init /\ [][NextPairing]_vars

\* One checker created with a chain of three links over a secret,
\* hash(hash(hash(secret))), and one student more than the chain has links.
ScenarioStudents == 1..(NumStudents + 1)

NextScenario ==
    \/ \E m \in Amounts, t \in Salts, secret \in Values :
           /\ HashN(secret, 3) \in Values
           /\ init(CheckerAssignment, 3, m, t, HashN(secret, 3))
           /\ UNCHANGED client
    \/ \E s \in ScenarioStudents : init_check_result(s, CheckerAssignment) /\ UNCHANGED client
    \/ \E s \in ScenarioStudents, n \in Lengths, p \in Values :
           check(s, CheckerAssignment, n, p) /\ UNCHANGED client

SpecScenario == InitOf(ScenarioStudents) /\ [][NextScenario]_vars

\* ------------------------------------------------------------------ the retrying client
\* The caller's side of ExpectedHashLengthDiffers: read the checker's length, send
\* the check with it, and after that error read the length again and send the
\* same preimage.  Any other outcome ends the loop.
ClientStudent == NumStudents

\* rejections are counted up to one more than any chain is long
MaxRejections == MaxChainLength + 1

client_read ==
    /\ client.pc \in {"idle", "read"}
    /\ assignment_checker.initialized
    /\ \E p \in Values :
           client' = [client EXCEPT !.pc = "check",
                                    !.view = assignment_checker.hash_chain_length,
                                    !.preimage = IF client.pc = "idle" THEN p ELSE @]
    /\ UNCHANGED <<assignment_checker, check_result, outcome, created, passes, first_time, frontiers>>

client_check ==
    LET code == CheckInstruction(ClientStudent, CheckerAssignment, client.view, client.preimage).code
        stale == code = "ExpectedHashLengthDiffers"
    IN
    /\ client.pc = "check"
    /\ check(ClientStudent, CheckerAssignment, client.view, client.preimage)
    /\ client' = [client EXCEPT !.pc = IF stale THEN "read" ELSE "done",
                                !.view = IdleClient.view,
                                !.preimage = IF stale THEN @ ELSE IdleClient.preimage,
                                !.rejections = IF stale /\ @ < MaxRejections THEN @ + 1 ELSE @,
                                !.result = code]

\* the lengths a caller can have read from the checker account: its current one
\* and the ones it has had
LengthsRead == assignment_checker.hash_chain_length .. created.length

\* The client's student sends its checks through the client; the other students
\* send, at any time, a check with any preimage and a length they have read, be
\* it current or stale.
NextRetry ==
    \/ \E a \in AssignmentIds, n \in Lengths, m \in Amounts, t \in Salts :
           init(a, n, m, t, HashN(0, n)) /\ UNCHANGED client
    \/ \E s \in Students : init_check_result(s, CheckerAssignment) /\ UNCHANGED client
    \/ \E s \in Students \ {ClientStudent}, n \in LengthsRead, p \in Values :
           check(s, CheckerAssignment, n, p) /\ UNCHANGED client
    \/ client_read
    \/ client_check

\* The client is a running process: a step of it that stays possible is taken.
SpecRetry == Init /\ [][NextRetry]_vars /\ WF_vars(client_read) /\ WF_vars(client_check)

\* ------------------------------------------------------------------ properties
\* The check of student s with its result account of assignment r reaches the
\* handler: both accounts are initialised and the Check constraints hold.
HandlerRuns(s, r) ==
    /\ assignment_checker.initialized
    /\ check_result[<<s, r>>].initialized
    /\ check_result[<<s, r>>].assignment_id = assignment_checker.assignment_id

\* the check changes check_passed of its result account from false to true
Passes(s, r, after) ==
    /\ ~check_result[<<s, r>>].check_passed
    /\ after.check_result[<<s, r>>].check_passed

\* C1: a check by a submitter that has not passed, whose expected length is the
\* checker's current non-zero length and whose preimage hashes to the tail,
\* returns success, decrements the length by one, makes the preimage the tail and
\* sets check_passed and passed_first_time; nothing else in any account changes.
C1_PassingCheck ==
    \A s \in Students, r \in AssignmentIds, n \in Lengths, p \in Values :
        LET account == check_result[<<s, r>>]
            after == CheckInstruction(s, r, n, p)
        IN
        ( /\ HandlerRuns(s, r)
          /\ ~account.check_passed
          /\ n = assignment_checker.hash_chain_length
          /\ n # 0
          /\ Hash(p) = assignment_checker.ground_truth_hash_chain_tail )
        =>
        ( /\ after.code = "Ok"
          /\ after.assignment_checker =
                 [assignment_checker EXCEPT !.hash_chain_length = n - 1,
                                            !.ground_truth_hash_chain_tail = p]
          /\ after.check_result =
                 [check_result EXCEPT ![<<s, r>>] =
                     [account EXCEPT !.check_passed = TRUE,
                                     !.passed_first_time = TRUE]] )

\* a first passing check has just run: one link is gone and the tail is the preimage
C1_Witness ==
    /\ outcome = Returned("check", "Ok")
    /\ assignment_checker.hash_chain_length = created.length - 1
    /\ Hash(assignment_checker.ground_truth_hash_chain_tail) = created.tail
    /\ \E s \in Students :
           /\ check_result[<<s, CheckerAssignment>>].check_passed
           /\ check_result[<<s, CheckerAssignment>>].passed_first_time

\* C2: however the checks of several submitters that all expect the same length v
\* interleave, at most one check with expected length v ever passes, and it moves
\* the checker from v to v - 1; a check whose expected length is not the checker's
\* current length neither passes nor changes the checker.
C2_OnePassPerLength ==
    /\ \A v \in DOMAIN passes : passes[v] <= 1
    /\ \A s \in Students, r \in AssignmentIds, v \in Lengths, p \in Values :
           LET after == CheckInstruction(s, r, v, p) IN
           /\ Passes(s, r, after) =>
                  /\ assignment_checker.hash_chain_length = v
                  /\ after.assignment_checker.hash_chain_length = v - 1
           /\ v # assignment_checker.hash_chain_length =>
                  /\ ~Passes(s, r, after)
                  /\ after.assignment_checker = assignment_checker

\* one submitter has passed with the created length, and a later check of another
\* submitter, still carrying that length, was rejected
C2_Witness ==
    /\ outcome = Returned("check", "ExpectedHashLengthDiffers")
    /\ created.length \in DOMAIN passes
    /\ passes[created.length] = 1
    /\ assignment_checker.hash_chain_length = created.length - 1
    /\ \E s1, s2 \in Students :
           /\ check_result[<<s1, CheckerAssignment>>].check_passed
           /\ check_result[<<s2, CheckerAssignment>>].initialized
           /\ ~check_result[<<s2, CheckerAssignment>>].check_passed

\* C3 as stated: every check whose expected length differs from the checker's
\* current length fails with ExpectedHashLengthDiffers and changes no account.
C3_StaleAlwaysRejected ==
    \A s \in Students, r \in AssignmentIds, n \in Lengths, p \in Values :
        LET after == CheckInstruction(s, r, n, p) IN
        (HandlerRuns(s, r) /\ n # assignment_checker.hash_chain_length)
        =>
        ( /\ after.code = "ExpectedHashLengthDiffers"
          /\ after.assignment_checker = assignment_checker
          /\ after.check_result = check_result )

\* C3, amended: a check by a submitter that has not passed, against a checker whose
\* length is not zero, with an expected length that differs from the checker's
\* length, fails with ExpectedHashLengthDiffers and changes no account, whether or
\* not the preimage hashes to the tail.
C3_StaleRejected ==
    \A s \in Students, r \in AssignmentIds, n \in Lengths, p \in Values :
        LET after == CheckInstruction(s, r, n, p) IN
        ( /\ HandlerRuns(s, r)
          /\ ~check_result[<<s, r>>].check_passed
          /\ assignment_checker.hash_chain_length # 0
          /\ n # assignment_checker.hash_chain_length )
        =>
        ( /\ after.code = "ExpectedHashLengthDiffers"
          /\ after.assignment_checker = assignment_checker
          /\ after.check_result = check_result )

\* a check was rejected as stale although some preimage hashes to the tail
C3_Witness ==
    /\ outcome = Returned("check", "ExpectedHashLengthDiffers")
    /\ assignment_checker.hash_chain_length # 0
    /\ \E p \in Values : Hash(p) = assignment_checker.ground_truth_hash_chain_tail

\* C4 as stated: when the checker's length is 0, every check fails with
\* ZeroHashChainLength, whatever the submitter's result account holds.
C4_ExhaustedAlwaysFails ==
    \A s \in Students, r \in AssignmentIds, n \in Lengths, p \in Values :
        (HandlerRuns(s, r) /\ assignment_checker.hash_chain_length = 0)
        => CheckInstruction(s, r, n, p).code = "ZeroHashChainLength"

\* C4, amended: when the checker's length is 0, every check by a submitter that
\* has not passed fails with ZeroHashChainLength, whatever its expected length and
\* preimage.
C4_ExhaustedFailsUnpassed ==
    \A s \in Students, r \in AssignmentIds, n \in Lengths, p \in Values :
        ( /\ HandlerRuns(s, r)
          /\ assignment_checker.hash_chain_length = 0
          /\ ~check_result[<<s, r>>].check_passed )
        => CheckInstruction(s, r, n, p).code = "ZeroHashChainLength"

\* the chain is used up and a check of a submitter that has not passed has failed
C4_Witness ==
    /\ outcome = Returned("check", "ZeroHashChainLength")
    /\ assignment_checker.initialized
    /\ assignment_checker.hash_chain_length = 0
    /\ \E s \in Students :
           /\ check_result[<<s, CheckerAssignment>>].initialized
           /\ ~check_result[<<s, CheckerAssignment>>].check_passed

\* C5: once the checker's length is 0, every step leaves the length at 0 and the
\* tail as it is, and no result account of the assignment that has not passed
\* becomes passed.
C5_ExhaustionAbsorbing ==
    [][ (assignment_checker.initialized /\ assignment_checker.hash_chain_length = 0)
        =>
        ( /\ assignment_checker'.initialized
          /\ assignment_checker'.hash_chain_length = 0
          /\ assignment_checker'.ground_truth_hash_chain_tail
                 = assignment_checker.ground_truth_hash_chain_tail
          /\ \A s \in Students :
                 ~check_result[<<s, assignment_checker.assignment_id>>].check_passed
                 => ~check_result'[<<s, assignment_checker.assignment_id>>].check_passed )
      ]_vars

\* the chain is used up, and a check whose expected length and preimage would fit
\* was tried afterwards
C5_Witness ==
    /\ assignment_checker.initialized
    /\ assignment_checker.hash_chain_length = 0
    /\ outcome = Returned("check", "ZeroHashChainLength")
    /\ \E p \in Values : Hash(p) = assignment_checker.ground_truth_hash_chain_tail

RECURSIVE PassesUpTo(_)
\* the number of checks that have passed with an expected length of at most n
PassesUpTo(n) == IF n = 0 THEN 0 ELSE passes[n] + PassesUpTo(n - 1)

\* C6 as stated: for a checker created with a length of at least 2 and the tail
\* Hash^length(secret), no check whose preimage is the secret ever passes; no check
\* passes while the length is 1; at most length - 1 checks pass in all.
C6_SecretNeverAccepted ==
    \A secret \in Values :
        (created.length >= 2 /\ created.tail = HashN(secret, created.length))
        =>
        ( /\ passes[1] = 0
          /\ PassesUpTo(MaxChainLength) <= created.length - 1
          /\ \A s \in Students, r \in AssignmentIds, n \in Lengths :
                 ~Passes(s, r, CheckInstruction(s, r, n, secret)) )

\* C7: for a checker created with the tail Hash^length(secret), in every state
\* the tail is Hash^(current length)(secret).
C7_FrontierInvariant ==
    \A secret \in Values :
        ( /\ assignment_checker.initialized
          /\ created.tail = HashN(secret, created.length) )
        => assignment_checker.ground_truth_hash_chain_tail
               = HashN(secret, assignment_checker.hash_chain_length)

\* a checker created over a secret has had two links removed
C7_Witness ==
    /\ assignment_checker.initialized
    /\ \E secret \in Values : created.tail = HashN(secret, created.length)
    /\ assignment_checker.hash_chain_length = created.length - 2
    /\ outcome = Returned("check", "Ok")

\* C8: every check by a submitter that has already passed, whatever its preimage
\* and expected length and whatever the checker's length, returns success, ends
\* with check_passed true and passed_first_time false and leaves the checker as it
\* is; running it once more changes nothing further.
C8_IdempotentAfterSuccess ==
    \A s \in Students, r \in AssignmentIds, n \in Lengths, p \in Values :
        LET account == check_result[<<s, r>>]
            after == CheckInstruction(s, r, n, p)
            again == CheckHandler(after.check_result[<<s, r>>], after.assignment_checker, n, p)
        IN
        (HandlerRuns(s, r) /\ account.check_passed)
        =>
        ( /\ after.code = "Ok"
          /\ after.assignment_checker = assignment_checker
          /\ after.check_result =
                 [check_result EXCEPT ![<<s, r>>] =
                     [account EXCEPT !.passed_first_time = FALSE]]
          /\ again.outcome = "Ok"
          /\ again.assignment_checker = after.assignment_checker
          /\ again.check_result = after.check_result[<<s, r>>] )

\* a submitter that passed has checked again, with the chain used up
C8_Witness ==
    /\ outcome = Returned("check", "Ok")
    /\ assignment_checker.hash_chain_length = 0
    /\ \E s \in Students :
           /\ check_result[<<s, CheckerAssignment>>].check_passed
           /\ ~check_result[<<s, CheckerAssignment>>].passed_first_time
           /\ first_time[<<s, CheckerAssignment>>] = 1

\* C9: a check that reaches the handler ends with passed_first_time true exactly
\* when it changed check_passed from false to true (so it is false after a wrong
\* preimage, after an error and after a check by a submitter that had passed), and
\* for each result account at most one check ever ends with passed_first_time true.
C9_FirstTimeFlag ==
    /\ \A k \in DOMAIN first_time : first_time[k] <= 1
    /\ \A s \in Students, r \in AssignmentIds, n \in Lengths, p \in Values :
           LET after == CheckInstruction(s, r, n, p) IN
           HandlerRuns(s, r)
           => (after.check_result[<<s, r>>].passed_first_time <=> Passes(s, r, after))

\* a submitter passed, which set the flag once, and its next check cleared it
C9_Witness ==
    \E s \in Students :
        /\ first_time[<<s, CheckerAssignment>>] = 1
        /\ check_result[<<s, CheckerAssignment>>].check_passed
        /\ ~check_result[<<s, CheckerAssignment>>].passed_first_time

\* C10: once the checker is initialised, every step leaves its length as it is or
\* decrements it by one, and an init sent with it is rejected and changes nothing.
C10_NoRegrow ==
    [][ assignment_checker.initialized
        =>
        ( /\ assignment_checker'.initialized
          /\ \/ assignment_checker'.hash_chain_length = assignment_checker.hash_chain_length
             \/ assignment_checker'.hash_chain_length = assignment_checker.hash_chain_length - 1
          /\ outcome'.instruction = "init"
             => /\ outcome'.code = "ConstraintZero"
                /\ assignment_checker' = assignment_checker )
      ]_vars

\* links were removed and a second init was then rejected
C10_Witness ==
    /\ outcome = Returned("init", "ConstraintZero")
    /\ assignment_checker.initialized
    /\ assignment_checker.hash_chain_length < created.length

\* C11: a check by a submitter that has not passed, whose expected length is the
\* checker's current non-zero length and whose preimage does not hash to the tail,
\* returns success and leaves the length, the tail, check_passed (false) and
\* passed_first_time (false) as they are.
C11_WrongGuessNoError ==
    \A s \in Students, r \in AssignmentIds, n \in Lengths, p \in Values :
        LET account == check_result[<<s, r>>]
            after == CheckInstruction(s, r, n, p)
        IN
        ( /\ HandlerRuns(s, r)
          /\ ~account.check_passed
          /\ n = assignment_checker.hash_chain_length
          /\ n # 0
          /\ Hash(p) # assignment_checker.ground_truth_hash_chain_tail )
        =>
        ( /\ after.code = "Ok"
          /\ after.assignment_checker = assignment_checker
          /\ after.check_result = check_result
          /\ ~after.check_result[<<s, r>>].check_passed
          /\ ~after.check_result[<<s, r>>].passed_first_time )

\* a check returned success although nobody has passed: a wrong guess
C11_Witness ==
    /\ outcome = Returned("check", "Ok")
    /\ assignment_checker.initialized
    /\ assignment_checker.hash_chain_length = created.length
    /\ \A s \in Students : ~check_result[<<s, CheckerAssignment>>].check_passed
    /\ \E p \in Values : Hash(p) = assignment_checker.ground_truth_hash_chain_tail

\* C12: in every step, a result account whose check_passed is true keeps it true
\* (and stays initialised); check_passed goes from false to true only in a check
\* that returns success; a result that has not passed either stays so or passes.
C12_CheckPassedMonotonic ==
    [][ \A k \in DOMAIN check_result :
            /\ check_result[k].initialized => check_result'[k].initialized
            /\ check_result[k].check_passed => check_result'[k].check_passed
            /\ (~check_result[k].check_passed /\ check_result'[k].check_passed)
               => /\ outcome' = Returned("check", "Ok")
                  /\ check_result[k].initialized
                  /\ check_result'[k].passed_first_time
      ]_vars

\* one result passed and was checked again, one passed just now, one has failed
C12_Witness ==
    \E s1, s2, s3 \in Students :
        /\ check_result[<<s1, CheckerAssignment>>].check_passed
        /\ ~check_result[<<s1, CheckerAssignment>>].passed_first_time
        /\ check_result[<<s2, CheckerAssignment>>].check_passed
        /\ check_result[<<s2, CheckerAssignment>>].passed_first_time
        /\ check_result[<<s3, CheckerAssignment>>].initialized
        /\ ~check_result[<<s3, CheckerAssignment>>].check_passed
        /\ outcome.instruction = "check"
        /\ outcome.code \in {"ZeroHashChainLength", "ExpectedHashLengthDiffers"}

\* C14: on a checker account that is still zero, an init of this assignment with a
\* length of at least 2 returns success and yields an account whose length is the
\* given length and whose assignment id, amount, salt and tail are exactly the
\* given ones; with a length of 0 or 1 it is rejected by the constraint and the
\* account stays zero.  Every initialised checker was created with a length >= 2.
C14_InitLength ==
    /\ assignment_checker.initialized
       => /\ created.length >= 2
          /\ assignment_checker.hash_chain_length <= created.length
          /\ created.tail \in frontiers
    /\ ZeroConstraint(assignment_checker)
       => \A n \in Lengths, m \in Amounts, t \in Salts, h \in Values :
              LET after == InitInstruction(CheckerAssignment, n, m, t, h) IN
              IF n >= 2
              THEN /\ after.code = "Ok"
                   /\ after.assignment_checker.initialized
                   /\ after.assignment_checker.hash_chain_length = n
                   /\ after.assignment_checker.assignment_id = CheckerAssignment
                   /\ after.assignment_checker.to_mint_on_successful_check = m
                   /\ after.assignment_checker.salt = t
                   /\ after.assignment_checker.ground_truth_hash_chain_tail = h
              ELSE /\ after.code = "ConstraintRaw"
                   /\ after.assignment_checker = ZeroChecker

\* an init with the smallest length has just succeeded
C14_Witness ==
    /\ outcome = Returned("init", "Ok")
    /\ assignment_checker.initialized
    /\ created.length = 2
    /\ assignment_checker.hash_chain_length = 2
    /\ assignment_checker.ground_truth_hash_chain_tail = created.tail

\* the result accounts of the checker's assignment whose check_passed is true
PassedStudents == {s \in Students : check_result[<<s, CheckerAssignment>>].check_passed}

\* C16: the length the checker was created with minus its current length is the
\* number of result accounts of its assignment with check_passed true, which is
\* also the number of passing checks; a passing check removes exactly one link and
\* changes one result account; no result account has passed more than once.
C16_Conservation ==
    /\ created.length - assignment_checker.hash_chain_length = Cardinality(PassedStudents)
    /\ PassesUpTo(MaxChainLength) = Cardinality(PassedStudents)
    /\ \A s \in Students :
           first_time[<<s, CheckerAssignment>>]
               = IF s \in PassedStudents THEN 1 ELSE 0
    /\ \A s \in Students, r \in AssignmentIds, n \in Lengths, p \in Values :
           LET after == CheckInstruction(s, r, n, p) IN
           IF Passes(s, r, after)
           THEN /\ after.assignment_checker.hash_chain_length
                       = assignment_checker.hash_chain_length - 1
                /\ \A k \in DOMAIN check_result :
                       k # <<s, r>> => after.check_result[k] = check_result[k]
           ELSE after.assignment_checker.hash_chain_length
                       = assignment_checker.hash_chain_length

\* two students have passed and two links are gone
C16_Witness ==
    /\ Cardinality(PassedStudents) = 2
    /\ created.length = 3
    /\ assignment_checker.hash_chain_length = 1
    /\ \E s \in Students : /\ check_result[<<s, CheckerAssignment>>].initialized
                           /\ s \notin PassedStudents

\* C18: no check passes whose preimage is a value the tail holds or has held: the
\* current tail, the tail the checker was created with, or any preimage accepted
\* by an earlier passing check -- for every student and every expected length.
C18_NoReplay ==
    \A s \in Students, r \in AssignmentIds, n \in Lengths, p \in frontiers :
        LET after == CheckInstruction(s, r, n, p) IN
        /\ ~Passes(s, r, after)
        /\ after.assignment_checker = assignment_checker

\* two preimages were accepted, and a student that has not passed then offered a
\* value with the current length and was not rejected
C18_Witness ==
    /\ Cardinality(frontiers) = 3
    /\ frontiers \subseteq Values
    /\ assignment_checker.hash_chain_length = 1
    /\ outcome = Returned("check", "Ok")
    /\ \E s \in Students : /\ check_result[<<s, CheckerAssignment>>].initialized
                           /\ ~check_result[<<s, CheckerAssignment>>].check_passed

\* C19: in every result account passed_first_time implies check_passed, and an
\* account that no check has changed has both false; the checker's length is
\* between 0 and the length it was created with, so the u16 decrement is never
\* applied to 0.
C19_FlagsAndBounds ==
    /\ \A k \in DOMAIN check_result :
           /\ check_result[k].passed_first_time => check_result[k].check_passed
           /\ first_time[k] = 0 => ~check_result[k].check_passed
    /\ 0 <= assignment_checker.hash_chain_length
    /\ assignment_checker.hash_chain_length <= created.length
    /\ \A s \in Students, r \in AssignmentIds, n \in Lengths, p \in Values :
           LET after == CheckInstruction(s, r, n, p) IN
           /\ after.assignment_checker.hash_chain_length <= assignment_checker.hash_chain_length
           /\ \A k \in DOMAIN check_result :
                  after.check_result[k].passed_first_time => after.check_result[k].check_passed

\* a result account with both flags set, one initialised with both clear, and a
\* length strictly inside its bounds
C19_Witness ==
    /\ 0 < assignment_checker.hash_chain_length
    /\ assignment_checker.hash_chain_length < created.length
    /\ \E s1, s2 \in Students :
           /\ check_result[<<s1, CheckerAssignment>>].passed_first_time
           /\ check_result[<<s1, CheckerAssignment>>].check_passed
           /\ check_result[<<s2, CheckerAssignment>>].initialized
           /\ ~check_result[<<s2, CheckerAssignment>>].check_passed
           /\ ~check_result[<<s2, CheckerAssignment>>].passed_first_time
    /\ outcome = Returned("init_check_result", "Ok")

C15_RecordPairing ==
    \A s \in Students, r \in AssignmentIds, n \in Lengths, p \in Values :
        LET account == check_result[<<s, r>>]
            after == CheckInstruction(s, r, n, p)
        IN
        /\ ( /\ assignment_checker.initialized
             /\ account.initialized
             /\ account.assignment_id # assignment_checker.assignment_id )
           => /\ after.code = "ConstraintRaw"
              /\ after.assignment_checker = assignment_checker
              /\ after.check_result = check_result
        /\ Passes(s, r, after)
           => account.assignment_id = assignment_checker.assignment_id

\* a result account of the other assignment that has already passed there was sent
\* with this checker, which still has links, and the check was rejected
C15_Witness ==
    /\ outcome = Returned("check", "ConstraintRaw")
    /\ assignment_checker.initialized
    /\ assignment_checker.hash_chain_length > 0
    /\ \E s \in PairingStudents, a \in AssignmentIds \ {CheckerAssignment} :
           /\ check_result[<<s, a>>].check_passed
           /\ check_result[<<s, a>>].passed_first_time
           /\ check_result[<<s, CheckerAssignment>>].initialized
           /\ ~check_result[<<s, CheckerAssignment>>].check_passed

\* C17: the client that reads the length again after each ExpectedHashLengthDiffers
\* is rejected with that error at most as many times as the chain was long when
\* created, whatever the other students send; the loop it has begun always ends
\* with another outcome; and the check it is about to send is always possible.
C17_RetryTerminates ==
    /\ [](client.rejections <= created.length)
    /\ [](client.pc = "check" => ENABLED client_check)
    /\ [](client.pc = "done" => client.result \in Outcomes \ {"None", "ExpectedHashLengthDiffers"})
    /\ (client.pc \in {"read", "check"}) ~> (client.pc = "done")

\* the client was rejected for a stale length, read the length again and its
\* second check passed
C17_Witness ==
    /\ client.pc = "done"
    /\ client.result = "Ok"
    /\ client.rejections = 1
    /\ outcome = Returned("check", "Ok")
    /\ check_result[<<ClientStudent, CheckerAssignment>>].passed_first_time
    /\ first_time[<<ClientStudent, CheckerAssignment>>] = 1

====
